---- MODULE Spec2Model ----
(***************************************************************************)
(* Verification model of utils/dataloader_utils.py (fold generation,       *)
(* class-balanced patient sampling, patch-grid decomposition, padding,     *)
(* bounding boxes from segmentations) and of IO_safe in utils/exp_utils.py.*)
(*                                                                         *)
(* Each component is a state machine of its own over the shared variables; *)
(* a component's specification keeps the other components' variables at    *)
(* their idle values.                                                      *)
(***************************************************************************)
EXTENDS Integers, Sequences, FiniteSets, TLC

VARIABLES
    \* ---- fold_generator (object fields, locals of get_fold_names) ----
    fg_pc,        \* "new" | "loop" | "done" | "error" | "off"
    myseed,       \* self.myseed
    n_splits,     \* self.n_splits
    len_data,     \* self.len_data
    shuffled,     \* what RandomState(myseed).shuffle makes of arange(len_data)
    cv_names,     \* local cv_names of get_fold_names (after the shuffle)
    tr_ix,        \* self.tr_ix
    val_ix,       \* self.val_ix
    te_ix,        \* self.te_ix
    slicer,       \* self.slicer   (-1 stands for None)
    missing,      \* self.missing
    mod,          \* self.mod      (-1 stands for "attribute not set yet")
    fold,         \* self.fold
    split,        \* loop variable of get_fold_names
    names_list,   \* local names_list of get_fold_names
    returned,     \* history: the lists returned so far, with the kind of call
    fresh,        \* history: TRUE while the object has completed no call
    \* ---- get_class_balanced_patients (arguments and locals) ----
    sp_pc,          \* "call" | "loop" | "done" | "error" | "off"
    all_pids,       \* argument all_pids
    class_targets,  \* argument class_targets: pid -> ROI class targets
    batch_size,     \* argument batch_size
    num_classes,    \* argument num_classes
    random_ratio,   \* argument random_ratio, as the fraction num / den
    class_counts,   \* local class_counts
    not_picked,     \* local not_picked
    batch_patients, \* local batch_patients: the slots filled so far
    rarest_class,   \* local rarest_class
    ix,             \* loop variable ix
    pool_at_refill, \* history: len(not_picked) at every refill of the call
    since_refill,   \* history: the picks since the last refill
    last_scan,      \* history: the shuffled pool, rarest_class and ix of the last scan
    \* ---- get_patch_crop_coords (arguments, locals, result) ----
    pg_pc,            \* "call" | "done" | "off"
    img_shape,        \* img.shape
    patch_size,       \* argument patch_size
    min_overlap,      \* argument min_overlap
    n_patches,        \* local n_patches, per axis, as of the end of the axis' iteration
    crop_coords,      \* local crop_coords, cast to int as the result is
    coords_mesh_grid, \* the returned array, row by row
    \* ---- pad_nd_image (arguments, locals, result) ----
    pd_pc,          \* "call" | "done" | "error" | "off"
    image_shape,    \* image.shape
    new_shape_arg,  \* argument new_shape: [given, val]; given = FALSE is None
    divisible_arg,  \* argument shape_must_be_divisible_by: [kind, val];
                    \* kind "none" is None, "scalar" a number <<k>>, "list" a list
    pad_mode,       \* argument mode
    return_slicer,  \* argument return_slicer
    pad_list,       \* local pad_list as handed to np.pad: <<below, above>> per axis
    res_shape,      \* res.shape
    res_src,        \* res, per axis: the image index each position of res holds
                    \* along that axis, -1 where it holds the constant pad value
    res_slicer,     \* the returned slicer: <<start, stop>> per axis
    pad_err,        \* the exception the call ended in, "none" if none
    \* ---- convert_seg_to_bounding_box_coordinates (arguments, locals) ----
    bb_pc,              \* "loop" | "done" | "error" | "off"
    data_dict,          \* the dict: a function from its keys to their values
    bb_in,              \* (history) data_dict as it was passed in
    seg_array,          \* the array object passed in as data_dict['seg']
    bb_dim,             \* argument dim
    roi_item_keys,      \* argument roi_item_keys
    get_rois_from_seg,  \* argument get_rois_from_seg
    class_specific_seg, \* argument class_specific_seg
    bb_b,               \* loop variable b: samples processed so far
    bb_target,          \* local list bb_target, one entry per sample
    roi_masks,          \* local list roi_masks
    roi_items,          \* local dict roi_items: key -> list, one entry per sample
    out_seg,            \* local array out_seg, one mask per sample
    bb_err,             \* the exception the call ended in, "none" if none
    \* ---- IO_safe (arguments, loop variable, result) ----
    io_pc,      \* "loop" | "returned" | "raised" | "off"
    io_kwargs,  \* which of the keyword arguments _tries, _raise the caller passed
    _tries,     \* argument _tries
    _raise,     \* argument _raise
    _try,       \* loop variable _try: the attempts completed so far
    func_log,   \* history: what each call of func did, in order
    io_result,  \* the value IO_safe returned, "None" if none
    io_exc,     \* the exception IO_safe ended in, "none" if none
    printed     \* history: the attempt numbers of the messages printed

fgVars == <<fg_pc, myseed, n_splits, len_data, shuffled, cv_names, tr_ix, val_ix,
            te_ix, slicer, missing, mod, fold, split, names_list, returned, fresh>>

spVars == <<sp_pc, all_pids, class_targets, batch_size, num_classes, random_ratio,
            class_counts, not_picked, batch_patients, rarest_class, ix,
            pool_at_refill, since_refill, last_scan>>

pgVars == <<pg_pc, img_shape, patch_size, min_overlap, n_patches, crop_coords,
            coords_mesh_grid>>

pdVars == <<pd_pc, image_shape, new_shape_arg, divisible_arg, pad_mode, return_slicer,
            pad_list, res_shape, res_src, res_slicer, pad_err>>

bbVars == <<bb_pc, data_dict, bb_in, seg_array, bb_dim, roi_item_keys, get_rois_from_seg,
            class_specific_seg, bb_b, bb_target, roi_masks, roi_items, out_seg, bb_err>>

ioVars == <<io_pc, io_kwargs, _tries, _raise, _try, func_log, io_result, io_exc, printed>>

vars == <<fgVars, spVars, pgVars, pdVars, bbVars, ioVars>>

----------------------------------------------------------------------------
(* Bounds of the model *)

MaxLen == 5
MaxSplits == 5
MaxCalls == 2
MaxPids == 3
MaxBatch == 3
MaxShape == 8
MaxPatch == 4
MaxDepth == 3
MaxAxis == 3
MaxTarget == 4
MaxDiv == 3
MaxSamples == 2
MaxCells == 2
MaxTries == 3

----------------------------------------------------------------------------
(* Python / numpy helpers *)

Min(a, b) == IF a < b THEN a ELSE b
Max(a, b) == IF a > b THEN a ELSE b

\* s[:k] of a Python list (k may be negative)
PySliceTo(s, k) ==
    IF k >= 0 THEN SubSeq(s, 1, Min(k, Len(s)))
    ELSE SubSeq(s, 1, Max(Len(s) + k, 0))

\* s[k:] of a Python list (k may be negative)
PySliceFrom(s, k) ==
    IF k >= 0 THEN SubSeq(s, Min(k, Len(s)) + 1, Len(s))
    ELSE SubSeq(s, Max(Len(s) + k, 0) + 1, Len(s))

\* int(np.ceil(a / float(b))) for a >= 0, b # 0
CeilDiv(a, b) ==
    IF b > 0 THEN (a + b - 1) \div b
    ELSE -(a \div (-b))

\* Python's a % b for a >= 0, b # 0 (the result has the sign of b)
PyMod(a, b) ==
    IF b > 0 THEN a % b
    ELSE -((-a) % (-b))

\* list(np.arange(l))
Arange(l) == [i \in 1..Max(l, 0) |-> i - 1]

\* arr[ix] : numpy fancy indexing of an array by a list of 0-based indices
Take(arr, idx) == [k \in 1..Len(idx) |-> arr[idx[k] + 1]]

Range(s) == {s[k] : k \in 1..Len(s)}

Perms(l) == {p \in [1..l -> 0..(l - 1)] : \A i, j \in 1..l : p[i] = p[j] => i = j}

\* The outcomes of rgen.shuffle(np.arange(l)) the model considers: every
\* permutation up to MaxLen elements; for the longer example id lists the
\* identity, the reversal and the rotation by one.
ShuffleOutcomes(l) ==
    IF l <= MaxLen THEN Perms(l)
    ELSE {[i \in 1..l |-> i - 1], [i \in 1..l |-> l - i], [i \in 1..l |-> i % l]}

\* (n_splits, len_data) of the documented example: 100 ids in 5 splits
ExampleFolds == {<<5, 100>>}

\* (n_splits, len_data) with a remainder and more than missing + 2 folds
RemainderFolds == {<<4, 7>>, <<5, 8>>, <<6, 9>>}

----------------------------------------------------------------------------
(* Components that are not in use, and what each component leaves alone *)

\* the fold generator is not in use
FoldIdle ==
    /\ fg_pc = "off"
    /\ myseed = 0
    /\ n_splits = 0
    /\ len_data = 0
    /\ shuffled = <<>>
    /\ cv_names = <<>>
    /\ tr_ix = <<>>
    /\ val_ix = <<>>
    /\ te_ix = <<>>
    /\ slicer = -1
    /\ missing = 0
    /\ mod = -1
    /\ fold = 0
    /\ split = 0
    /\ names_list = <<>>
    /\ returned = <<>>
    /\ fresh = TRUE

\* what the fold generator leaves alone
FoldFrame == UNCHANGED <<spVars, pgVars, pdVars, bbVars, ioVars>>

\* get_class_balanced_patients is not in use
SamplerIdle ==
    /\ sp_pc = "off"
    /\ all_pids = <<>>
    /\ class_targets = <<>>
    /\ batch_size = 0
    /\ num_classes = 0
    /\ random_ratio = [num |-> 0, den |-> 1]
    /\ class_counts = <<>>
    /\ not_picked = <<>>
    /\ batch_patients = <<>>
    /\ rarest_class = 0
    /\ ix = 0
    /\ pool_at_refill = <<>>
    /\ since_refill = <<>>
    /\ last_scan = <<>>

\* what get_class_balanced_patients leaves alone
SamplerFrame == UNCHANGED <<fgVars, pgVars, pdVars, bbVars, ioVars>>

\* get_patch_crop_coords is not in use
PatchIdle ==
    /\ pg_pc = "off"
    /\ img_shape = <<>>
    /\ patch_size = <<>>
    /\ min_overlap = 0
    /\ n_patches = <<>>
    /\ crop_coords = <<>>
    /\ coords_mesh_grid = <<>>

\* what get_patch_crop_coords leaves alone
PatchFrame == UNCHANGED <<fgVars, spVars, pdVars, bbVars, ioVars>>

\* pad_nd_image is not in use
PadIdle ==
    /\ pd_pc = "off"
    /\ image_shape = <<>>
    /\ new_shape_arg = [given |-> FALSE, val |-> <<>>]
    /\ divisible_arg = [kind |-> "none", val |-> <<>>]
    /\ pad_mode = "edge"
    /\ return_slicer = FALSE
    /\ pad_list = <<>>
    /\ res_shape = <<>>
    /\ res_src = <<>>
    /\ res_slicer = <<>>
    /\ pad_err = "none"

\* what pad_nd_image leaves alone
PadFrame == UNCHANGED <<fgVars, spVars, pgVars, bbVars, ioVars>>

\* convert_seg_to_bounding_box_coordinates is not in use
BBoxIdle ==
    /\ bb_pc = "off"
    /\ data_dict = <<>>
    /\ bb_in = <<>>
    /\ seg_array = <<>>
    /\ bb_dim = 2
    /\ roi_item_keys = <<>>
    /\ get_rois_from_seg = FALSE
    /\ class_specific_seg = FALSE
    /\ bb_b = 0
    /\ bb_target = <<>>
    /\ roi_masks = <<>>
    /\ roi_items = <<>>
    /\ out_seg = <<>>
    /\ bb_err = "none"

\* what convert_seg_to_bounding_box_coordinates leaves alone
BBoxFrame == UNCHANGED <<fgVars, spVars, pgVars, pdVars, ioVars>>

\* IO_safe is not in use
IOIdle ==
    /\ io_pc = "off"
    /\ io_kwargs = {}
    /\ _tries = 0
    /\ _raise = FALSE
    /\ _try = 0
    /\ func_log = <<>>
    /\ io_result = "None"
    /\ io_exc = "none"
    /\ printed = <<>>

\* what IO_safe leaves alone
IOFrame == UNCHANGED <<fgVars, spVars, pgVars, pdVars, bbVars>>

----------------------------------------------------------------------------
(* fold_generator *)

\* fold_generator.init_indices: the fields it assigns
init_indices(l, n, old_missing) ==
    LET t == Arange(l)
        split_length == CeilDiv(Len(t), n)
        m == PyMod(Len(t), n)
        rest == PySliceFrom(t, split_length)
    IN  [slicer  |-> split_length,
         mod     |-> m,
         missing |-> IF m > 0 THEN n - m ELSE old_missing,
         te_ix   |-> PySliceTo(t, split_length),
         val_ix  |-> PySliceTo(rest, split_length),
         tr_ix   |-> PySliceFrom(rest, split_length)]

\* (mutant of fold_slicer: off by one in the comparison)
fold_slicer_off_by_one(f, miss, sl) == IF f <= miss THEN sl - 1 ELSE sl

\* (mutant of fold_slicer: the later folds are the shortened ones)
fold_slicer_short_last(f, miss, sl) == IF f >= miss THEN sl - 1 ELSE sl

\* the slice length new_fold uses for the next validation set
fold_slicer(f, miss, sl) == IF f < miss THEN sl - 1 ELSE sl

\* the "mod == 1" special case of new_fold
mod_one_case(f, n, m) == f = n - 2 /\ m = 1

\* (mutant of new_fold: the outgoing test ids are not appended to the training ids)
new_fold_drops_test(tr, val, te, sl, miss, f, n, m) ==
    LET s == fold_slicer(f, miss, sl)
        special == mod_one_case(f, n, m)
        val1 == IF special THEN PySliceTo(val, -1) ELSE val
    IN  [te_ix  |-> val1,
         val_ix |-> PySliceTo(tr, s),
         tr_ix  |-> PySliceFrom(tr, s)]

\* fold_generator.new_fold: the three index lists after the rotation
new_fold(tr, val, te, sl, miss, f, n, m) ==
    LET s == fold_slicer(f, miss, sl)
        special == mod_one_case(f, n, m)
        temp == IF special THEN te \o PySliceFrom(val, -1) ELSE te
        val1 == IF special THEN PySliceTo(val, -1) ELSE val
    IN  [te_ix  |-> val1,
         val_ix |-> PySliceTo(tr, s),
         tr_ix  |-> PySliceFrom(tr, s) \o temp]

\* fold_generator.__init__
FoldInit ==
    /\ fg_pc = "new"
    /\ myseed \in {42}
    /\ \E p \in (((-1)..MaxSplits) \X (0..MaxLen)) \cup ExampleFolds \cup RemainderFolds :
          /\ n_splits = p[1]
          /\ len_data = p[2]
    /\ shuffled \in ShuffleOutcomes(len_data)
    /\ cv_names = <<>>
    /\ tr_ix = <<>>
    /\ val_ix = <<>>
    /\ te_ix = <<>>
    /\ slicer = -1
    /\ missing = 0
    /\ mod = -1
    /\ fold = 0
    /\ split = 0
    /\ names_list = <<>>
    /\ returned = <<>>
    /\ fresh = TRUE

\* get_fold_names up to the loop: shuffle, init_indices.
\* n_splits = 0 makes init_indices divide by float(0): ZeroDivisionError.
GetFoldNamesBegin ==
    /\ fg_pc \in {"new", "done"}
    /\ Len(returned) < MaxCalls
    /\ names_list' = <<>>
    /\ cv_names' = shuffled
    /\ split' = 0
    /\ IF n_splits = 0
       THEN /\ fg_pc' = "error"
            /\ UNCHANGED <<tr_ix, val_ix, te_ix, slicer, missing, mod>>
       ELSE LET r == init_indices(Len(shuffled), n_splits, missing)
            IN  /\ fg_pc' = "loop"
                /\ slicer' = r.slicer
                /\ mod' = r.mod
                /\ missing' = r.missing
                /\ te_ix' = r.te_ix
                /\ val_ix' = r.val_ix
                /\ tr_ix' = r.tr_ix
    /\ UNCHANGED <<myseed, n_splits, len_data, shuffled, fold, returned, fresh>>
    /\ FoldFrame

\* one iteration of "for split in range(self.n_splits)"
FoldLoopStep ==
    /\ fg_pc = "loop"
    /\ split < n_splits
    /\ names_list' = Append(names_list,
                            [train |-> Take(cv_names, tr_ix),
                             val   |-> Take(cv_names, val_ix),
                             test  |-> Take(cv_names, te_ix),
                             fold  |-> fold])
    /\ LET r == new_fold(tr_ix, val_ix, te_ix, slicer, missing, fold, n_splits, mod)
       IN  /\ te_ix' = r.te_ix
           /\ val_ix' = r.val_ix
           /\ tr_ix' = r.tr_ix
    /\ fold' = fold + 1
    /\ split' = split + 1
    /\ UNCHANGED <<fg_pc, myseed, n_splits, len_data, shuffled, cv_names, slicer,
                   missing, mod, returned, fresh>>
    /\ FoldFrame

\* "return names_list"
GetFoldNamesReturn ==
    /\ fg_pc = "loop"
    /\ split >= n_splits
    /\ fg_pc' = "done"
    /\ returned' = Append(returned, [names |-> names_list, fresh |-> fresh])
    /\ fresh' = FALSE
    /\ UNCHANGED <<myseed, n_splits, len_data, shuffled, cv_names, tr_ix, val_ix,
                   te_ix, slicer, missing, mod, fold, split, names_list>>
    /\ FoldFrame

\* fold_generator.__init__ again, with the same arguments: a fresh object
NewGenerator ==
    /\ fg_pc = "done"
    /\ ~fresh
    /\ Len(returned) < MaxCalls
    /\ fg_pc' = "new"
    /\ tr_ix' = <<>>
    /\ val_ix' = <<>>
    /\ te_ix' = <<>>
    /\ slicer' = -1
    /\ missing' = 0
    /\ mod' = -1
    /\ fold' = 0
    /\ fresh' = TRUE
    /\ UNCHANGED <<myseed, n_splits, len_data, shuffled, cv_names, split,
                   names_list, returned>>
    /\ FoldFrame

NextFold ==
    \/ GetFoldNamesBegin
    \/ FoldLoopStep
    \/ GetFoldNamesReturn
    \/ NewGenerator

InitFold == FoldInit /\ SamplerIdle /\ PatchIdle /\ PadIdle /\ BBoxIdle /\ IOIdle

SpecFold == InitFold /\ [][NextFold]_vars

----------------------------------------------------------------------------
(* Properties of fold_generator *)

AllIds == 0..(len_data - 1)

ValidFoldInput == n_splits >= 1 /\ len_data >= n_splits

\* a, b, c are duplicate-free, pairwise disjoint and together make up U
IsPartition(a, b, c, U) ==
    /\ Len(a) + Len(b) + Len(c) = Cardinality(U)
    /\ Range(a) \cup Range(b) \cup Range(c) = U

FoldsPartition(names) ==
    \A k \in 1..Len(names) :
        IsPartition(names[k].train, names[k].val, names[k].test, AllIds)

\* the number of folds of a returned list whose test set holds id
TestCount(names, id) ==
    Cardinality({k \in 1..Len(names) : id \in Range(names[k].test)})

TestsCoverOnce(names) ==
    /\ \A id \in AllIds : TestCount(names, id) = 1
    /\ \A k \in 1..Len(names) : Cardinality(Range(names[k].test)) = Len(names[k].test)

\* C1: for n_splits >= 1 and len_data >= n_splits, once init_indices has run the
\* index lists tr_ix, val_ix, te_ix are pairwise disjoint and make up all
\* indices, every new_fold step keeps that, and in every fold collected or
\* returned the train, val and test ids are pairwise disjoint with the full id
\* set as their union.
C1_FoldsPartitionIds ==
    (ValidFoldInput /\ fg_pc \in {"loop", "done"}) =>
        /\ IsPartition(tr_ix, val_ix, te_ix, AllIds)
        /\ FoldsPartition(names_list)
        /\ \A c \in 1..Len(returned) :
              /\ Len(returned[c].names) = n_splits
              /\ FoldsPartition(returned[c].names)

C1_Witness ==
    /\ fg_pc = "done"
    /\ fresh = FALSE
    /\ Len(returned) = 1
    /\ n_splits = 3
    /\ len_data = 5
    /\ Len(returned[1].names) = 3
    /\ Len(returned[1].names[3].train) > 0

\* C2: for n_splits >= 1 and len_data >= n_splits, over the folds a fresh
\* generator returns every id is in the test set of exactly one fold.
C2_EveryIdTestedOnce ==
    \A c \in 1..Len(returned) :
        (ValidFoldInput /\ returned[c].fresh) => TestsCoverOnce(returned[c].names)

\* C3: every call of get_fold_names with the same seed, n_splits and len_data,
\* on a fresh generator or again on the same object, returns the same list of
\* (train, val, test, fold_index), with fold_index running 0..n_splits-1.
C3_RepeatedCallsIdentical ==
    \A c \in 1..Len(returned) :
        /\ returned[c].names = returned[1].names
        /\ \A k \in 1..Len(returned[c].names) : returned[c].names[k].fold = k - 1

\* C4: when len_data is an exact multiple of n_splits, every fold's test set
\* has len_data / n_splits ids, the test sets are pairwise disjoint and their
\* union is the full id set, whatever the shuffle order.
C4_EqualTestSets ==
    \A c \in 1..Len(returned) :
        (n_splits >= 1 /\ len_data % n_splits = 0) =>
            /\ Len(returned[c].names) = n_splits
            /\ \A k \in 1..Len(returned[c].names) :
                  Len(returned[c].names[k].test) = len_data \div n_splits
            /\ TestsCoverOnce(returned[c].names)

C4_Witness ==
    /\ Len(returned) >= 1
    /\ <<n_splits, len_data>> \in ExampleFolds
    /\ shuffled # Arange(len_data)
    /\ Len(returned[1].names) = n_splits
    /\ Len(returned[1].names[1].test) * n_splits = len_data

\* C5: with n_splits <= 0 or len_data < n_splits, get_fold_names returns no
\* fold list (it ends in an error).
C5_InvalidInputRejected ==
    (n_splits <= 0 \/ len_data < n_splits) => (fg_pc # "done" /\ Len(returned) = 0)

\* the number of test ids of fold k (counted from 0) of a returned list
TestLen(names, k) == Len(names[k + 1].test)

\* C21 as stated: with remainder = len_data mod n_splits > 0, the test sets of
\* the first n_splits - remainder folds a fresh generator returns have
\* slice_len = ceil(len_data / n_splits) ids and those of all later folds
\* have slice_len - 1 ids.
C21_ShortTestSetsLast ==
    \A c \in 1..Len(returned) :
        (ValidFoldInput /\ returned[c].fresh /\ len_data % n_splits > 0) =>
            \A k \in 0..(n_splits - 1) :
                TestLen(returned[c].names, k) =
                    IF k < n_splits - (len_data % n_splits)
                    THEN CeilDiv(len_data, n_splits)
                    ELSE CeilDiv(len_data, n_splits) - 1

\* C21 amended: with remainder > 0 and missing = n_splits - remainder, the
\* shortened test sets come before the full ones. Fold 0 has slice_len test
\* ids, and so has fold 1 when n_splits >= 3; the folds 2 .. missing + 1, whose
\* sets new_fold cut while fold < missing, have at most slice_len - 1 ids
\* (exactly slice_len - 1 when the remainder is 2 or more); every later fold
\* has slice_len ids.
C21_ShortTestSetsFirst ==
    \A c \in 1..Len(returned) :
        (ValidFoldInput /\ returned[c].fresh /\ len_data % n_splits > 0) =>
            LET slice_len == CeilDiv(len_data, n_splits)
                remainder == len_data % n_splits
                miss == n_splits - remainder
            IN  \A k \in 0..(n_splits - 1) :
                    LET l == TestLen(returned[c].names, k)
                    IN  /\ k = 0 => l = slice_len
                        /\ (k = 1 /\ n_splits >= 3) => l = slice_len
                        /\ (2 <= k /\ k <= miss + 1) =>
                              /\ l <= slice_len - 1
                              /\ remainder >= 2 => l = slice_len - 1
                        /\ k > miss + 1 => l = slice_len

\* 8 ids in 5 splits: the test sets have 2, 2, 1, 1, 2 ids
C21_Witness ==
    /\ Len(returned) >= 1 /\ returned[1].fresh
    /\ n_splits = 5 /\ len_data = 8
    /\ [k \in 1..5 |-> Len(returned[1].names[k].test)] = <<2, 2, 1, 1, 2>>

----------------------------------------------------------------------------
(* get_class_balanced_patients *)

\* the patient ids of the model
PatientIds == {1, 2, 3}

\* the ROI class targets a patient may have: no ROI, one ROI of class 1, one
\* of class 2, one of class 1 and two of class 2
TargetChoices == {<<>>, <<1>>, <<2>>, <<1, 2, 2>>}

\* the values of random_ratio: 0 (the default), 1/2, 1
RatioChoices == {[num |-> 0, den |-> 1], [num |-> 1, den |-> 2], [num |-> 1, den |-> 1]}

IsSorted(s) == \A i \in 1..(Len(s) - 1) : s[i] <= s[i + 1]

SeqsUpTo(S, n) == UNION {[1..k -> S] : k \in 0..n}

\* all orders np.random.shuffle may leave the array in
Shuffles(s) ==
    {[k \in 1..Len(s) |-> s[p[k] + 1]] : p \in Perms(Len(s))}

\* np.count_nonzero(targets == cl)
CountClass(targets, cl) == Cardinality({k \in 1..Len(targets) : targets[k] = cl})

\* np.argmin([count(c) for c in range(1, num_classes+1)]) + 1 : the first minimum
ArgMinClass(counts, nc) ==
    CHOOSE c \in 1..nc :
        /\ \A d \in 1..nc : counts[c] <= counts[d]
        /\ \A d \in 1..(c - 1) : counts[d] > counts[c]

\* cand_rarest_class of a candidate
CandRarestClass(targets, nc) ==
    ArgMinClass([c \in 1..nc |-> CountClass(targets, c)], nc)

\* int(batch_size * random_ratio)
RandomSlots(bs, rr) == (bs * rr.num) \div rr.den

\* (mutant of ScanBreak: the scan goes on while ix is below the random slots)
ScanBreak_continues_below_ratio(targets, rarest, nc, i, bs, rr) ==
    \/ (CandRarestClass(targets, nc) # rarest /\ CountClass(targets, rarest) > 0)
    \/ i >= RandomSlots(bs, rr)

\* the condition of "break" in the candidate scan
ScanBreak(targets, rarest, nc, i, bs, rr) ==
    \/ (CandRarestClass(targets, nc) # rarest /\ CountClass(targets, rarest) > 0)
    \/ i < RandomSlots(bs, rr)

\* "for cand in not_picked: ..." from position k on, with the pick so far
RECURSIVE ScanPick(_, _, _, _, _, _, _, _, _)
ScanPick(pool, k, pick, ct, rarest, nc, i, bs, rr) ==
    IF k > Len(pool) THEN pick
    ELSE LET cand == pool[k] IN
         IF CountClass(ct[cand], rarest) > 0
         THEN IF ScanBreak(ct[cand], rarest, nc, i, bs, rr)
              THEN cand
              ELSE ScanPick(pool, k + 1, cand, ct, rarest, nc, i, bs, rr)
         ELSE ScanPick(pool, k + 1, pick, ct, rarest, nc, i, bs, rr)

\* (mutant of NeedsRefill: the pool is never refilled)
NeedsRefill_never(pool) == Len(pool) < 0

\* (mutant of RemovePick: only the first occurrence of the pick is removed)
RemovePick_first_only(pool, pick) ==
    LET first == CHOOSE k \in 1..Len(pool) :
                    pool[k] = pick /\ \A j \in 1..(k - 1) : pool[j] # pick
    IN  IF pick \in Range(pool)
        THEN SubSeq(pool, 1, first - 1) \o SubSeq(pool, first + 1, Len(pool))
        ELSE pool

\* "if len(not_picked) == 0"
NeedsRefill(pool) == Len(pool) = 0

\* not_picked[not_picked != pick]
RemovePick(pool, pick) == SelectSeq(pool, LAMBDA x : x # pick)

\* The arguments of a call. The order of all_pids never reaches the result
\* (not_picked is shuffled at the top of every slot before it is read), so
\* all_pids is drawn in sorted order, repeated ids included.
SamplerInit ==
    /\ sp_pc = "call"
    /\ all_pids \in {s \in SeqsUpTo(PatientIds, MaxPids) : IsSorted(s)}
    /\ class_targets \in [PatientIds -> TargetChoices]
    /\ batch_size \in 0..MaxBatch
    /\ num_classes \in {1, 2}
    /\ random_ratio \in RatioChoices
    /\ class_counts = <<>>
    /\ not_picked = <<>>
    /\ batch_patients = <<>>
    /\ rarest_class = 0
    /\ ix = 0
    /\ pool_at_refill = <<>>
    /\ since_refill = <<>>
    /\ last_scan = <<>>

\* lines 264-267: the locals before the loop; rarest_class is drawn at random
SamplerBegin ==
    /\ sp_pc = "call"
    /\ sp_pc' = "loop"
    /\ class_counts' = [c \in 1..num_classes |-> 0]
    /\ not_picked' = all_pids
    /\ batch_patients' = <<>>
    /\ rarest_class' \in 1..num_classes
    /\ ix' = 0
    /\ UNCHANGED <<all_pids, class_targets, batch_size, num_classes, random_ratio,
                   pool_at_refill, since_refill, last_scan>>
    /\ SamplerFrame

\* one iteration of "for ix in range(batch_size)"; not_picked[0] of an empty
\* pool raises IndexError
SamplerSlot ==
    /\ sp_pc = "loop"
    /\ ix < batch_size
    /\ LET refill == NeedsRefill(not_picked)
           pool0 == IF refill THEN all_pids ELSE not_picked
       IN  /\ pool_at_refill' = IF refill THEN Append(pool_at_refill, Len(not_picked))
                                ELSE pool_at_refill
           /\ IF Len(pool0) = 0
              THEN /\ sp_pc' = "error"
                   /\ not_picked' = pool0
                   /\ UNCHANGED <<class_counts, batch_patients, rarest_class, ix,
                                  since_refill, last_scan>>
              ELSE \E pool \in Shuffles(pool0) :
                     LET pick == ScanPick(pool, 1, pool[1], class_targets, rarest_class,
                                          num_classes, ix, batch_size, random_ratio)
                         counts == [c \in 1..num_classes |->
                                      class_counts[c] + CountClass(class_targets[pick], c)]
                     IN  /\ class_counts' = counts
                         /\ rarest_class' = ArgMinClass(counts, num_classes)
                         /\ batch_patients' = Append(batch_patients, pick)
                         /\ not_picked' = RemovePick(pool, pick)
                         /\ since_refill' = IF refill THEN <<pick>>
                                            ELSE Append(since_refill, pick)
                         /\ last_scan' = [pool |-> pool, rarest |-> rarest_class, ix |-> ix]
                         /\ ix' = ix + 1
                         /\ sp_pc' = "loop"
    /\ UNCHANGED <<all_pids, class_targets, batch_size, num_classes, random_ratio>>
    /\ SamplerFrame

\* "return batch_patients"
SamplerReturn ==
    /\ sp_pc = "loop"
    /\ ix >= batch_size
    /\ sp_pc' = "done"
    /\ UNCHANGED <<all_pids, class_targets, batch_size, num_classes, random_ratio,
                   class_counts, not_picked, batch_patients, rarest_class, ix,
                   pool_at_refill, since_refill, last_scan>>
    /\ SamplerFrame

NextSampler ==
    \/ SamplerBegin
    \/ SamplerSlot
    \/ SamplerReturn

InitSampler == SamplerInit /\ FoldIdle /\ PatchIdle /\ PadIdle /\ BBoxIdle /\ IOIdle

SpecSampler == InitSampler /\ [][NextSampler]_vars

----------------------------------------------------------------------------
(* Properties of get_class_balanced_patients *)

NoRepeats(s) == Cardinality(Range(s)) = Len(s)

\* C6: with a non-empty eligible id list the call raises no error and the
\* returned batch has exactly batch_size entries, each of them an eligible id,
\* also when batch_size exceeds the number of eligible ids.
C6_BatchSizeAndMembership ==
    (sp_pc # "off" /\ Len(all_pids) > 0) =>
        /\ sp_pc # "error"
        /\ Range(batch_patients) \subseteq Range(all_pids)
        /\ sp_pc = "done" => Len(batch_patients) = batch_size

C6_Witness ==
    /\ sp_pc = "done"
    /\ Len(all_pids) > 0
    /\ batch_size > Len(all_pids)
    /\ Len(batch_patients) = batch_size
    /\ Len(pool_at_refill) > 0

\* C7: after each slot the chosen id is gone from the remaining pool (all its
\* occurrences), the pool is refilled only at a slot where it is empty, no id
\* is chosen twice between two refills, and with at least batch_size distinct
\* eligible ids the batch has no repeated id and no refill happens.
C7_NoRepeatBetweenRefills ==
    sp_pc \in {"loop", "done"} =>
        /\ ix > 0 => batch_patients[ix] \notin Range(not_picked)
        /\ \A k \in 1..Len(pool_at_refill) : pool_at_refill[k] = 0
        /\ NoRepeats(since_refill)
        /\ Cardinality(Range(all_pids)) >= batch_size =>
              /\ NoRepeats(batch_patients)
              /\ pool_at_refill = <<>>

C7_Witness ==
    /\ sp_pc = "done"
    /\ batch_size = 2
    /\ Cardinality(Range(all_pids)) = 2
    /\ Len(all_pids) = 3
    /\ Len(batch_patients) = 2
    /\ not_picked = <<>>

\* the positions of the last scanned pool whose candidate contains the
\* rarest_class of that scan, and those among them whose own rarest class
\* differs from it
Holders ==
    {k \in 1..Len(last_scan.pool) :
        CountClass(class_targets[last_scan.pool[k]], last_scan.rarest) > 0}
GoodHolders ==
    {k \in Holders :
        CandRarestClass(class_targets[last_scan.pool[k]], num_classes) # last_scan.rarest}

FirstPos(S) == CHOOSE k \in S : \A j \in S : k <= j
LastPos(S) == CHOOSE k \in S : \A j \in S : k >= j

\* the id picked by the last scan
LastPick == batch_patients[Len(batch_patients)]

\* C22 as stated: the first candidate of the shuffled pool that contains
\* rarest_class is the pick, unless its own rarest class equals rarest_class
\* and ix is below random_ratio * batch_size.
C22_ContinuesOnlyBelowRatio ==
    (last_scan # <<>> /\ Holders # {}) =>
        LET first == last_scan.pool[FirstPos(Holders)]
            below == last_scan.ix * random_ratio.den < random_ratio.num * batch_size
            own_is_rarest == CandRarestClass(class_targets[first], num_classes) = last_scan.rarest
        IN  ~(own_is_rarest /\ below) => LastPick = first

\* C22 amended: the first candidate of the shuffled pool that contains
\* rarest_class is the pick if ix is below int(batch_size * random_ratio) or
\* its own rarest class differs from rarest_class; only when its own rarest
\* class equals rarest_class and ix has reached int(batch_size * random_ratio)
\* does the scan continue, and then the first candidate that contains
\* rarest_class and has another own rarest class is the pick, if there is one.
C22_ContinuesOnlyPastRatio ==
    (last_scan # <<>> /\ Holders # {}) =>
        LET first == last_scan.pool[FirstPos(Holders)]
            below == last_scan.ix < RandomSlots(batch_size, random_ratio)
            own_is_rarest == CandRarestClass(class_targets[first], num_classes) = last_scan.rarest
        IN  /\ (below \/ ~own_is_rarest) => LastPick = first
            /\ (~below /\ own_is_rarest /\ GoodHolders # {})
                  => LastPick = last_scan.pool[FirstPos(GoodHolders)]

\* a scan past the random slots went on after the first candidate holding
\* rarest_class and took a later one
C22_Witness ==
    /\ last_scan # <<>> /\ Holders # {} /\ GoodHolders # {}
    /\ last_scan.ix >= RandomSlots(batch_size, random_ratio)
    /\ FirstPos(Holders) < FirstPos(GoodHolders)
    /\ LastPick = last_scan.pool[FirstPos(GoodHolders)]
    /\ LastPick # last_scan.pool[FirstPos(Holders)]

\* C23: when a scan runs through the whole pool without finding a candidate
\* that contains rarest_class and has another own rarest class, the pick is
\* the first candidate, in shuffled pool order, that contains rarest_class.
C23_FallbackFirstHolder ==
    (last_scan # <<>> /\ Holders # {} /\ GoodHolders = {}
     /\ last_scan.ix >= RandomSlots(batch_size, random_ratio)) =>
        LastPick = last_scan.pool[FirstPos(Holders)]

----------------------------------------------------------------------------
(* get_patch_crop_coords *)

(* The code computes centers and bounds in double precision. The model      *)
(* computes them exactly, as fractions: for the shapes and patch sizes of   *)
(* the model (and of the example) the two agree on every input.             *)

\* p / q (p >= 0, q > 0) rounded to the nearest integer, ties to even: np.round
RoundHalfEven(p, q) ==
    LET fl == p \div q
        r == p % q
    IN  IF 2 * r < q THEN fl
        ELSE IF 2 * r > q THEN fl + 1
        ELSE IF fl % 2 = 0 THEN fl ELSE fl + 1

\* a / b (b > 0) cut towards zero: astype(int)
TruncDiv(a, b) == IF a >= 0 THEN a \div b ELSE -((-a) \div b)

\* n_patches = int(np.ceil(img.shape[dim] / patch_size[dim]))
first_n_patches(shape, ps) == CeilDiv(shape, ps)

\* (mutant of overlap_too_small: the overlap is never found too small)
overlap_too_small_never(shape, ps, n, mo) == FALSE

\* (patch_size[dim] - center_dists) < min_overlap, with
\* center_dists = (img.shape[dim] - patch_size[dim]) / (n_patches - 1), n > 1
overlap_too_small(shape, ps, n, mo) ==
    ps * (n - 1) - (shape - ps) < mo * (n - 1)

\* n_patches of an axis after "n_patches += 1", where that applies
final_n_patches(shape, ps, mo) ==
    LET n == first_n_patches(shape, ps)
    IN  IF n = 1 THEN 1
        ELSE IF overlap_too_small(shape, ps, n, mo) THEN n + 1 ELSE n

\* np.round(patch_size[dim] / 2 + center_dists * ii), for n > 1
patch_center(shape, ps, n, ii) ==
    RoundHalfEven(ps * (n - 1) + 2 * (shape - ps) * ii, 2 * (n - 1))

\* (center - patch_size[dim] / 2, center + patch_size[dim] / 2), cast to int
patch_bounds(center, ps) ==
    <<TruncDiv(2 * center - ps, 2), TruncDiv(2 * center + ps, 2)>>

\* one iteration of "for dim in range(len(img.shape))": the axis' entry of crop_coords
dim_crop_coords(shape, ps, mo) ==
    LET n == final_n_patches(shape, ps, mo)
    IN  IF n = 1 THEN << <<0, shape>> >>
        ELSE [k \in 1..n |-> patch_bounds(patch_center(shape, ps, n, k - 1), ps)]

\* the third-axis entries of the rows: crop_coords[2] when patch_size[2] > 1,
\* one (zmin, zmin + 1) per zmin in range(img.shape[2]) when patch_size[2] == 1
z_entries(shape, ps, cc) ==
    IF Len(cc) = 3 /\ ps[3] > 1 THEN cc[3]
    ELSE IF Len(cc) = 3 /\ ps[3] = 1 THEN [z \in 1..shape[3] |-> <<z - 1, z>>]
    ELSE << <<>> >>

\* (mutant of mesh_grid: the loops over axis 0 and axis 1 are swapped)
mesh_grid_axis1_major(shape, ps, cc) ==
    LET zs == z_entries(shape, ps, cc)
        ny == Len(cc[1])
        nx == Len(cc[2])
        nz == Len(zs)
    IN  [k \in 1..(ny * nx * nz) |->
            cc[1][(((k - 1) \div nz) % ny) + 1]
            \o cc[2][((k - 1) \div (ny * nz)) + 1]
            \o zs[((k - 1) % nz) + 1]]

\* lines 444-454: the rows of coords_mesh_grid, in the order they are appended
mesh_grid(shape, ps, cc) ==
    LET zs == z_entries(shape, ps, cc)
        ny == Len(cc[1])
        nx == Len(cc[2])
        nz == Len(zs)
    IN  [k \in 1..(ny * nx * nz) |->
            cc[1][((k - 1) \div (nx * nz)) + 1]
            \o cc[2][(((k - 1) \div nz) % nx) + 1]
            \o zs[((k - 1) % nz) + 1]]

\* image_shape, patch_size, min_overlap of the documented example
ExamplePatchInputs == {<< <<500, 500>>, <<256, 256>>, 30 >>}

\* the arguments of the model: 2D images, and 3D images of up to MaxDepth
\* slices with a third patch size of 1 (slice-wise) or 2
PatchInputs ==
    LET xy == [1..2 -> 1..MaxShape]
        pxy == [1..2 -> 1..MaxPatch]
        mos == (-1)..(MaxPatch - 1)
    IN  (xy \X pxy \X mos)
        \cup {<<s \o <<d>>, q \o <<pz>>, mo>> :
                s \in xy, q \in pxy, d \in 1..MaxDepth, pz \in {1, 2}, mo \in mos}
        \cup ExamplePatchInputs

PatchInit ==
    /\ pg_pc = "call"
    /\ \E inp \in PatchInputs :
          /\ img_shape = inp[1]
          /\ patch_size = inp[2]
          /\ min_overlap = inp[3]
    /\ n_patches = <<>>
    /\ crop_coords = <<>>
    /\ coords_mesh_grid = <<>>

\* get_patch_crop_coords(img, patch_size, min_overlap)
GetPatchCropCoords ==
    /\ pg_pc = "call"
    /\ pg_pc' = "done"
    /\ LET cc == [d \in 1..Len(img_shape) |->
                    dim_crop_coords(img_shape[d], patch_size[d], min_overlap)]
       IN  /\ crop_coords' = cc
           /\ n_patches' = [d \in 1..Len(img_shape) |->
                              final_n_patches(img_shape[d], patch_size[d], min_overlap)]
           /\ coords_mesh_grid' = mesh_grid(img_shape, patch_size, cc)
    /\ UNCHANGED <<img_shape, patch_size, min_overlap>>
    /\ PatchFrame

NextPatch == GetPatchCropCoords

InitPatch == PatchInit /\ FoldIdle /\ SamplerIdle /\ PadIdle /\ BBoxIdle /\ IOIdle

SpecPatch == InitPatch /\ [][NextPatch]_vars

----------------------------------------------------------------------------
(* Properties of get_patch_crop_coords *)

Axes == 1..Len(img_shape)

OverlapBelowPatchSize == \A d \in Axes : min_overlap < patch_size[d]

\* the [min, max) ranges of the returned rows along axis d, in order of first
\* appearance
RowRanges(d) == {<<coords_mesh_grid[k][2 * d - 1], coords_mesh_grid[k][2 * d]>> :
                    k \in 1..Len(coords_mesh_grid)}

\* the ranges emitted along axis d, in increasing position
EmittedAlong(d) ==
    IF d = 3 THEN z_entries(img_shape, patch_size, crop_coords) ELSE crop_coords[d]

\* C8: for min_overlap < patch_size[d], the ranges [min, max) of the returned
\* rows cover every index of [0, image_shape[d]) along every axis d.
C8_PatchesCoverImage ==
    (pg_pc = "done" /\ OverlapBelowPatchSize) =>
        \A d \in Axes : \A i \in 0..(img_shape[d] - 1) :
            \E r \in RowRanges(d) : r[1] <= i /\ i < r[2]

\* C9: for min_overlap < patch_size[d], along every axis with more than one
\* patch each patch overlaps the next one by at least min_overlap indices.
C9_AdjacentOverlap ==
    (pg_pc = "done" /\ OverlapBelowPatchSize) =>
        \A d \in Axes :
            LET e == EmittedAlong(d)
            IN  \A k \in 1..(Len(e) - 1) : e[k][2] - e[k + 1][1] >= min_overlap

IsExamplePatchInput == <<img_shape, patch_size, min_overlap>> \in ExamplePatchInputs

ExampleOverlapHolds ==
    \A d \in Axes : \A k \in 1..(Len(crop_coords[d]) - 1) :
        crop_coords[d][k][2] - crop_coords[d][k + 1][1] >= min_overlap

\* C10 as stated: for image_shape (500,500), patch_size (256,256) and
\* min_overlap 30 there are 2 patches per axis, overlapping by at least 30.
C10_ExampleTwoPatches ==
    (pg_pc = "done" /\ IsExamplePatchInput) =>
        /\ \A d \in Axes : n_patches[d] = 2 /\ Len(crop_coords[d]) = 2
        /\ ExampleOverlapHolds

\* C10 (amended): for image_shape (500,500), patch_size (256,256) and
\* min_overlap 30 there are 3 patches per axis (two would overlap by 12 only),
\* 9 rows in all, and adjacent patches overlap by at least 30.
C10_ExampleThreePatches ==
    (pg_pc = "done" /\ IsExamplePatchInput) =>
        /\ \A d \in Axes : n_patches[d] = 3 /\ Len(crop_coords[d]) = 3
        /\ Len(coords_mesh_grid) = 9
        /\ ExampleOverlapHolds

C10_Witness ==
    /\ pg_pc = "done"
    /\ IsExamplePatchInput
    /\ crop_coords[1] = << <<0, 256>>, <<122, 378>>, <<244, 500>> >>
    /\ Len(coords_mesh_grid) = 9

\* C24: every patch is a fixed-size window: on every axis d with more than
\* one patch every returned row satisfies max - min = patch_size[d], whatever
\* the (positive) patch size and the image shape.
C24_FixedSizeWindows ==
    pg_pc = "done" =>
        \A d \in Axes :
            n_patches[d] > 1 =>
                \A k \in 1..Len(coords_mesh_grid) :
                    coords_mesh_grid[k][2 * d] - coords_mesh_grid[k][2 * d - 1] = patch_size[d]

\* the bounds the rows are expected to carry on the third axis: none for a 2D
\* image, one [z, z+1) per slice for a third patch size of 1, else the third
\* axis' patch bounds
ExpectedThirdAxis ==
    IF Len(img_shape) = 2 THEN << <<>> >>
    ELSE IF patch_size[3] = 1 THEN [z \in 1..img_shape[3] |-> <<z - 1, z>>]
    ELSE crop_coords[3]

\* C11: the returned records are the Cartesian product of the per-axis bound
\* lists with axis 0 outermost, then axis 1, then axis 2 innermost, so there are
\* as many as the product of the per-axis counts; for a 3D image with a third
\* patch size of 1 the third axis contributes [z, z+1) for z = 0..shape[2]-1, in
\* increasing z, inside each (axis 0, axis 1) pair.
C11_MeshGridOrder ==
    pg_pc = "done" =>
        LET ny == Len(crop_coords[1])
            nx == Len(crop_coords[2])
            zs == ExpectedThirdAxis
            nz == Len(zs)
        IN  /\ ny = n_patches[1]
            /\ nx = n_patches[2]
            /\ (Len(img_shape) = 3 /\ patch_size[3] > 1) => nz = n_patches[3]
            /\ Len(coords_mesh_grid) = ny * nx * nz
            /\ \A a \in 1..ny : \A b \in 1..nx : \A c \in 1..nz :
                  coords_mesh_grid[((a - 1) * nx + (b - 1)) * nz + c]
                      = crop_coords[1][a] \o crop_coords[2][b] \o zs[c]

C11_Witness ==
    /\ pg_pc = "done"
    /\ Len(img_shape) = 3
    /\ patch_size[3] = 1
    /\ img_shape[3] = 3
    /\ Len(crop_coords[1]) = 2
    /\ Len(crop_coords[2]) = 3
    /\ Len(coords_mesh_grid) = 18
    /\ coords_mesh_grid[4] = crop_coords[1][1] \o crop_coords[2][2] \o <<0, 1>>

----------------------------------------------------------------------------
(* pad_nd_image *)

\* new_shape once it is known: the argument, or image.shape[-len(divisors):]
pad_target(shape, ns, dv) ==
    IF ns.given THEN ns.val ELSE PySliceFrom(shape, -Len(dv.val))

\* old_shape: image.shape[-len(new_shape):]
pad_old_shape(shape, ns, dv) == PySliceFrom(shape, -Len(pad_target(shape, ns, dv)))

\* (mutant of pad_error: without the two assertions on shape_must_be_divisible_by)
pad_error_no_asserts(shape, ns, dv) ==
    IF Len(pad_old_shape(shape, ns, dv)) < Len(pad_target(shape, ns, dv))
    THEN "IndexError"
    ELSE IF dv.kind = "list" /\ Len(dv.val) # Len(pad_target(shape, ns, dv))
    THEN "AssertionError"
    ELSE "none"

\* the exception the call ends in: the assertions of lines 485, 486 and 501,
\* old_shape[i] past the end of old_shape in line 492
pad_error(shape, ns, dv) ==
    IF ~ns.given /\ dv.kind = "none" THEN "AssertionError"
    ELSE IF ~ns.given /\ dv.kind # "list" THEN "AssertionError"
    ELSE IF Len(pad_old_shape(shape, ns, dv)) < Len(pad_target(shape, ns, dv))
    THEN "IndexError"
    ELSE IF dv.kind = "list" /\ Len(dv.val) # Len(pad_target(shape, ns, dv))
    THEN "AssertionError"
    ELSE "none"

\* (mutant of pad_min_shape: the requested shape is taken as it is)
pad_min_shape_crops(shape, ns, dv) == pad_target(shape, ns, dv)

\* line 492: [max(new_shape[i], old_shape[i]) for i in range(len(new_shape))]
pad_min_shape(shape, ns, dv) ==
    LET t == pad_target(shape, ns, dv)
        old == pad_old_shape(shape, ns, dv)
    IN  [i \in 1..Len(t) |-> Max(t[i], old[i])]

\* lines 498-499: a scalar divisor is repeated for every padded axis
pad_divisors(dv, k) ==
    IF dv.kind = "scalar" THEN [i \in 1..k |-> dv.val[1]] ELSE dv.val

\* (mutant of pad_round_up: a multiple is not left as it is)
pad_round_up_always_adds(v, d) == v + d - (v % d)

\* (mutant of pad_round_up: the remainder is added instead of its complement)
pad_round_up_adds_remainder(v, d) == v + (v % d)

\* lines 503-507 for one axis: v, less d if v is a multiple of d, then
\* + d - (that % d)
pad_round_up(v, d) ==
    LET v1 == IF v % d = 0 THEN v - d ELSE v
    IN  v1 + d - (v1 % d)

\* new_shape as of line 509
pad_new_shape(shape, ns, dv) ==
    LET m == pad_min_shape(shape, ns, dv)
        ds == pad_divisors(dv, Len(m))
    IN  IF dv.kind = "none" THEN m
        ELSE [i \in 1..Len(m) |-> pad_round_up(m[i], ds[i])]

\* (mutant of pad_amounts: the odd element goes below)
pad_amounts_extra_below(shape, ns, dv) ==
    LET n == pad_new_shape(shape, ns, dv)
        old == pad_old_shape(shape, ns, dv)
        num_axes_nopad == Len(shape) - Len(n)
    IN  [a \in 1..Len(shape) |->
            IF a <= num_axes_nopad THEN <<0, 0>>
            ELSE LET difference == n[a - num_axes_nopad] - old[a - num_axes_nopad]
                 IN  <<(difference \div 2) + (difference % 2), difference \div 2>>]

\* lines 509-512: pad_list, <<pad_below, pad_above>> per axis of the image
pad_amounts(shape, ns, dv) ==
    LET n == pad_new_shape(shape, ns, dv)
        old == pad_old_shape(shape, ns, dv)
        num_axes_nopad == Len(shape) - Len(n)
    IN  [a \in 1..Len(shape) |->
            IF a <= num_axes_nopad THEN <<0, 0>>
            ELSE LET difference == n[a - num_axes_nopad] - old[a - num_axes_nopad]
                 IN  <<difference \div 2, (difference \div 2) + (difference % 2)>>]

\* np.pad along one axis of length len: what each position of the result holds
np_pad_axis(len, below, above, mode) ==
    [j \in 1..(below + len + above) |->
        IF j <= below THEN (IF mode = "edge" THEN 0 ELSE -1)
        ELSE IF j > below + len THEN (IF mode = "edge" THEN len - 1 ELSE -1)
        ELSE j - below - 1]

\* (mutant of pad_slicer: the stop is taken from the pad_below column)
pad_slicer_below_twice(pl, rs) ==
    [a \in 1..Len(pl) |-> <<pl[a][1], rs[a] - pl[a][1]>>]

\* lines 517-519: pad_list[:, 1] = res.shape - pad_list[:, 1]; slice(*i)
pad_slicer(pl, rs) ==
    [a \in 1..Len(pl) |-> <<pl[a][1], rs[a] - pl[a][2]>>]

\* the image shapes of the docstring: (10, 1, 512, 512) with new_shape
\* (768, 768) and (364, 768)
ExamplePadInputs ==
    {<< <<10, 1, 512, 512>>, [given |-> TRUE, val |-> t], [kind |-> "none", val |-> <<>>] >> :
        t \in {<<768, 768>>, <<364, 768>>}}

\* the arguments of the model: images of one or two axes, new_shape None or
\* of one or two entries, a divisor that is None, a number or a list
PadInputs ==
    LET shapes == UNION {[1..r -> 1..MaxAxis] : r \in {1, 2}}
        targets == {[given |-> FALSE, val |-> <<>>]}
                   \cup {[given |-> TRUE, val |-> t] :
                           t \in UNION {[1..k -> 1..MaxTarget] : k \in {1, 2}}}
        divs == {[kind |-> "none", val |-> <<>>]}
                \cup {[kind |-> "scalar", val |-> <<d>>] : d \in 1..MaxDiv}
                \cup {[kind |-> "list", val |-> l] :
                        l \in UNION {[1..k -> 1..MaxDiv] : k \in {1, 2}}}
    IN  (shapes \X targets \X divs) \cup ExamplePadInputs

PadInit ==
    /\ pd_pc = "call"
    /\ \E inp \in PadInputs :
          /\ image_shape = inp[1]
          /\ new_shape_arg = inp[2]
          /\ divisible_arg = inp[3]
    /\ pad_mode \in {"edge", "constant"}
    /\ return_slicer \in BOOLEAN
    /\ pad_list = <<>>
    /\ res_shape = <<>>
    /\ res_src = <<>>
    /\ res_slicer = <<>>
    /\ pad_err = "none"

\* pad_nd_image(image, new_shape, mode, kwargs, return_slicer, shape_must_be_divisible_by)
PadNdImage ==
    /\ pd_pc = "call"
    /\ LET e == pad_error(image_shape, new_shape_arg, divisible_arg)
       IN  IF e # "none"
           THEN /\ pd_pc' = "error"
                /\ pad_err' = e
                /\ UNCHANGED <<pad_list, res_shape, res_src, res_slicer>>
           ELSE LET pl == pad_amounts(image_shape, new_shape_arg, divisible_arg)
                    rs == [a \in 1..Len(image_shape) |->
                             pl[a][1] + image_shape[a] + pl[a][2]]
                IN  /\ pd_pc' = "done"
                    /\ pad_err' = "none"
                    /\ pad_list' = pl
                    /\ res_shape' = rs
                    /\ res_src' = [a \in 1..Len(image_shape) |->
                                     np_pad_axis(image_shape[a], pl[a][1], pl[a][2], pad_mode)]
                    /\ res_slicer' = IF return_slicer THEN pad_slicer(pl, rs) ELSE <<>>
    /\ UNCHANGED <<image_shape, new_shape_arg, divisible_arg, pad_mode, return_slicer>>
    /\ PadFrame

NextPad == PadNdImage

InitPad == PadInit /\ FoldIdle /\ SamplerIdle /\ PatchIdle /\ BBoxIdle /\ IOIdle

SpecPad == InitPad /\ [][NextPad]_vars

(* Properties of pad_nd_image *)

\* res[slicer] along axis a: Python's slice(start, stop) of that axis of res
\* (start and stop are never negative here)
CropAxis(a) ==
    LET lo == Min(res_slicer[a][1], res_shape[a])
        hi == Min(res_slicer[a][2], res_shape[a])
    IN  [p \in 1..Max(hi - lo, 0) |-> res_src[a][lo + p]]

\* the axes pad_nd_image may pad: the last PadK of the image
PadK == Len(pad_target(image_shape, new_shape_arg, divisible_arg))

\* C12: round trip of pad_nd_image. After a call with return_slicer=True that
\* returned, indexing the result with the returned slicer gives, on every axis,
\* exactly the positions 0 .. len-1 of the image in order: an array of the
\* original shape with the original value at every position.
C12_RoundTrip ==
    (pd_pc = "done" /\ return_slicer) =>
        /\ Len(res_slicer) = Len(image_shape)
        /\ \A a \in 1..Len(image_shape) :
              CropAxis(a) = [p \in 1..image_shape[a] |-> p - 1]

\* a returned call with a slicer, an odd amount of padding on one axis
C12_Witness ==
    /\ pd_pc = "done" /\ return_slicer
    /\ \E a \in 1..Len(image_shape) : pad_list[a] = <<1, 2>> /\ res_slicer[a] = <<1, 1 + image_shape[a]>>

\* C13: pad_nd_image never crops and touches only the trailing axes. After a
\* call that returned, every axis before the last k (k the length of
\* new_shape, or of the divisor list when new_shape is None) has its original
\* length and content, every one of the last k axes is at least as long as
\* max(requested length, original length), and the image (10,1,512,512) with
\* new_shape (364,768) gives (10,1,512,768).
C13_NeverCropsTrailingOnly ==
    pd_pc = "done" =>
        LET n == Len(image_shape)
            t == pad_target(image_shape, new_shape_arg, divisible_arg)
        IN  /\ Len(res_shape) = n
            /\ \A a \in 1..n :
                  IF a <= n - PadK
                  THEN /\ res_shape[a] = image_shape[a]
                       /\ res_src[a] = [p \in 1..image_shape[a] |-> p - 1]
                  ELSE res_shape[a] >= Max(t[a - (n - PadK)], image_shape[a])
            /\ (image_shape = <<10, 1, 512, 512>> /\ new_shape_arg.val = <<364, 768>>)
                  => res_shape = <<10, 1, 512, 768>>

\* the docstring's call has returned
C13_Witness ==
    /\ pd_pc = "done"
    /\ image_shape = <<10, 1, 512, 512>> /\ new_shape_arg.val = <<364, 768>>
    /\ res_shape = <<10, 1, 512, 768>>

\* C14: with shape_must_be_divisible_by given, after a call that returned
\* every one of the last k axes of the result has a length that is an exact
\* multiple of its divisor (the scalar, or the list's entry for that axis).
C14_DivisibleTrailingAxes ==
    (pd_pc = "done" /\ divisible_arg.kind # "none") =>
        LET n == Len(image_shape)
            ds == pad_divisors(divisible_arg, PadK)
        IN  \A i \in 1..PadK : res_shape[n - PadK + i] % ds[i] = 0

\* a scalar divisor together with new_shape, an axis that had to grow past the
\* requested length to reach a multiple
C14_Witness ==
    /\ pd_pc = "done" /\ divisible_arg.kind = "scalar" /\ new_shape_arg.given
    /\ divisible_arg.val = <<3>> /\ new_shape_arg.val = <<4>>
    /\ image_shape = <<2, 2>> /\ res_shape = <<2, 6>>

\* C15: a call with neither new_shape nor shape_must_be_divisible_by ends in
\* an AssertionError and has no result.
C15_NoSizeArgumentFails ==
    (pd_pc \in {"done", "error"} /\ ~new_shape_arg.given /\ divisible_arg.kind = "none") =>
        /\ pd_pc = "error"
        /\ pad_err = "AssertionError"
        /\ res_shape = <<>> /\ res_src = <<>> /\ res_slicer = <<>>

\* such a call has failed
C15_Witness ==
    /\ pd_pc = "error" /\ pad_err = "AssertionError"
    /\ ~new_shape_arg.given /\ divisible_arg.kind = "none"
    /\ image_shape = <<2, 3>>

\* C25: on every padded axis, with diff = output length - original length,
\* the original content starts at offset diff // 2 of the result, in order, and
\* is followed by diff - diff // 2 padded elements; the diff // 2 positions
\* before it and the positions after it hold padding (the constant, or the
\* nearest edge element), so an odd diff puts the extra element above.
C25_PadSplit ==
    pd_pc = "done" =>
        \A a \in (Len(image_shape) - PadK + 1)..Len(image_shape) :
            LET len == image_shape[a]
                diff == res_shape[a] - len
                below == diff \div 2
                above == diff - below
            IN  /\ diff >= 0
                /\ pad_list[a] = <<below, above>>
                /\ Len(res_src[a]) = below + len + above
                /\ \A p \in 1..len : res_src[a][below + p] = p - 1
                /\ \A j \in 1..below :
                      res_src[a][j] = IF pad_mode = "constant" THEN -1 ELSE 0
                /\ \A j \in (below + len + 1)..(below + len + above) :
                      res_src[a][j] = IF pad_mode = "constant" THEN -1 ELSE len - 1

\* an axis of length 1 padded to 4 with a constant: one element below, two above
C25_Witness ==
    /\ pd_pc = "done" /\ pad_mode = "constant"
    /\ image_shape = <<1>> /\ res_shape = <<4>>
    /\ pad_list = << <<1, 2>> >>
    /\ res_src = << <<-1, 0, -1, -1>> >>

\* C26: with a divisor k, every padded trailing axis of the result has the
\* smallest multiple of k that is >= max(new_shape[d], original length), so an
\* axis whose effective target is a multiple of k already is not enlarged; and
\* pad_nd_image with the same arguments on the result raises nothing and pads
\* nothing (the shape stays as it is).
C26_SmallestMultiple ==
    (pd_pc = "done" /\ divisible_arg.kind # "none") =>
        LET n == Len(image_shape)
            t == pad_target(image_shape, new_shape_arg, divisible_arg)
            ds == pad_divisors(divisible_arg, PadK)
        IN  /\ \A i \in 1..PadK :
                  LET eff == Max(t[i], image_shape[n - PadK + i])
                      r == res_shape[n - PadK + i]
                  IN  /\ r % ds[i] = 0
                      /\ r >= eff
                      /\ r - ds[i] < eff
                      /\ eff % ds[i] = 0 => r = eff
            /\ pad_error(res_shape, new_shape_arg, divisible_arg) = "none"
            /\ pad_amounts(res_shape, new_shape_arg, divisible_arg) = [a \in 1..n |-> <<0, 0>>]

\* divisors (2, 3) on an image of shape (2, 3) with new_shape (3, 3): the
\* first axis grows to 4, the second is a multiple already and stays 3
C26_Witness ==
    /\ pd_pc = "done" /\ divisible_arg = [kind |-> "list", val |-> <<2, 3>>]
    /\ image_shape = <<2, 3>> /\ new_shape_arg.val = <<3, 3>>
    /\ res_shape = <<4, 3>>

----------------------------------------------------------------------------
(* convert_seg_to_bounding_box_coordinates

   A mask data_dict['seg'][b] has one channel; it is modelled as a function
   from the cells <<y, x>> or <<y, x, z>> of that channel to their labels. *)

SetMin(S) == CHOOSE x \in S : \A y \in S : x <= y
SetMax(S) == CHOOSE x \in S : \A y \in S : x >= y

\* the elements of a set of numbers in increasing order
Ascending(S) == [i \in 1..Cardinality(S) |-> CHOOSE x \in S : Cardinality({y \in S : y < x}) = i - 1]

\* np.sum(mask != 0) > 0
nonzero_cells(seg_b) == {c \in DOMAIN seg_b : seg_b[c] # 0}

\* two cells are neighbours for scipy's label: they differ by one on one axis
Adjacent(c1, c2) ==
    \E i \in 1..Len(c1) :
        /\ c1[i] - c2[i] \in {-1, 1}
        /\ \A j \in 1..Len(c1) : j # i => c1[j] = c2[j]

RECURSIVE GrowCluster(_, _)
GrowCluster(S, N) ==
    LET T == S \cup {c \in N : \E t \in S : Adjacent(t, c)}
    IN  IF T = S THEN S ELSE GrowCluster(T, N)

RECURSIVE CountClusters(_)
CountClusters(N) ==
    IF N = {} THEN 0
    ELSE 1 + CountClusters(N \ GrowCluster({CHOOSE c \in N : TRUE}, N))

\* lines 546-550: the number of connected clusters of non-zero cells, or the
\* largest label
n_cands(seg_b, from_seg) ==
    IF from_seg THEN CountClusters(nonzero_cells(seg_b))
    ELSE SetMax({seg_b[c] : c \in DOMAIN seg_b})

\* line 548: data_dict['class_targets'][b] = [data_dict['class_targets'][b]] * n_cands
class_targets_b(ct_b, seg_b, from_seg) ==
    IF from_seg THEN [i \in 1..n_cands(seg_b, TRUE) |-> ct_b] ELSE ct_b

\* lines 552-553: (data_dict['seg'][b] == ii) * 1
roi_of(seg_b, ii) == [c \in DOMAIN seg_b |-> IF seg_b[c] = ii THEN 1 ELSE 0]

\* np.argwhere(r != 0)
seg_ixs(seg_b, ii) == {c \in DOMAIN seg_b : seg_b[c] = ii}

\* (mutant of coord_list: the lower corner is clipped to the image)
coord_list_clipped(ixs, dim) ==
    LET ys == {c[1] : c \in ixs}
        xs == {c[2] : c \in ixs}
        zs == {c[3] : c \in ixs}
    IN  <<Max(SetMin(ys) - 1, 0), Max(SetMin(xs) - 1, 0), SetMax(ys) + 1, SetMax(xs) + 1>>
        \o (IF dim = 3 THEN <<Max(SetMin(zs) - 1, 0), SetMax(zs) + 1>> ELSE <<>>)

\* lines 558-561: [min y - 1, min x - 1, max y + 1, max x + 1 (, min z - 1, max z + 1)]
coord_list(ixs, dim) ==
    LET ys == {c[1] : c \in ixs}
        xs == {c[2] : c \in ixs}
        zs == {c[3] : c \in ixs}
    IN  <<SetMin(ys) - 1, SetMin(xs) - 1, SetMax(ys) + 1, SetMax(xs) + 1>>
        \o (IF dim = 3 THEN <<SetMin(zs) - 1, SetMax(zs) + 1>> ELSE <<>>)

\* (mutant of roi_class_ok: no assertion)
roi_class_ok_any(c) == TRUE

\* line 575: assert data_dict["class_targets"][b][rix] >= 1
roi_class_ok(c) == c >= 1

\* (mutant of roi_item: every ROI gets the first entry)
roi_item_first(items, rix) == items[1]

\* line 573: data_dict[name][b][rix]
roi_item(items, rix) == items[rix + 1]

\* the per-sample attribute lists the loop body reads: data_dict[name][b] for
\* the declared keys and for 'class_targets', the latter as of line 548
items_of(d, keys, bpos, from_seg) ==
    [name \in Range(keys) \cup {"class_targets"} |->
        IF name = "class_targets"
        THEN class_targets_b(d["class_targets"][bpos], d["seg"][bpos], from_seg)
        ELSE d[name][bpos]]

\* the exception iteration rix of the ROI loop ends in (lines 555-579)
roi_error(items, keys, seg_b, rix, css) ==
    LET survived == seg_ixs(seg_b, rix + 1) # {}
    IN  IF survived /\ \E k \in 1..Len(keys) : rix >= Len(items[keys[k]])
        THEN "IndexError"
        ELSE IF survived /\ rix >= Len(items["class_targets"])
        THEN "IndexError"
        ELSE IF survived /\ ~roi_class_ok(roi_item(items["class_targets"], rix))
        THEN "AssertionError"
        ELSE IF css /\ rix >= Len(items["class_targets"])
        THEN "IndexError"
        ELSE "none"

\* the exception the ROI loop of one sample ends in: that of its first
\* failing iteration
sample_error(items, keys, seg_b, from_seg, css) ==
    LET failing == {rix \in 0..(n_cands(seg_b, from_seg) - 1) :
                       roi_error(items, keys, seg_b, rix, css) # "none"}
    IN  IF failing = {} THEN "none"
        ELSE roi_error(items, keys, seg_b, SetMin(failing), css)

\* the values of rix for which line 556 holds, in loop order
survived_rix(seg_b, from_seg) ==
    Ascending({rix \in 0..(n_cands(seg_b, from_seg) - 1) : seg_ixs(seg_b, rix + 1) # {}})

\* out_seg[b] rewritten id by id from r on, each step reading the values
\* written so far
RECURSIVE RelabelInPlace(_, _, _, _)
RelabelInPlace(m, ct, r, n) ==
    IF r > n THEN m
    ELSE RelabelInPlace([c \in DOMAIN m |-> IF m[c] = r THEN ct[r] ELSE m[c]], ct, r + 1, n)

\* (mutant of out_seg_b: the voxels to rewrite are looked up in out_seg)
out_seg_b_in_place(seg_b, ct, from_seg, css) ==
    IF css THEN RelabelInPlace(seg_b, ct, 1, n_cands(seg_b, from_seg))
    ELSE [c \in DOMAIN seg_b |-> IF seg_b[c] > 0 THEN 1 ELSE seg_b[c]]

\* lines 578-582: out_seg[b] after the ROI loop
out_seg_b(seg_b, ct, from_seg, css) ==
    [c \in DOMAIN seg_b |->
        IF css
        THEN (IF seg_b[c] \in 1..n_cands(seg_b, from_seg) THEN ct[seg_b[c]] ELSE seg_b[c])
        ELSE (IF seg_b[c] > 0 THEN 1 ELSE seg_b[c])]

\* (mutant of empty_roi_masks: no placeholder)
empty_roi_masks_none(seg_b) == <<>>

\* line 592: np.zeros_like(data_dict['seg'][b], dtype='uint8')[None]
empty_roi_masks(seg_b) == << [c \in DOMAIN seg_b |-> 0] >>

\* lines 596-603: the dict that is returned
final_dict(d, keys, from_seg, bt, rm, ri, os) ==
    LET kept == IF from_seg THEN DOMAIN d \ {"class_targets"} ELSE DOMAIN d
    IN  [k \in kept \cup {"bb_target", "roi_masks", "seg"} \cup Range(keys) |->
            IF k \in Range(keys) THEN ri[k]
            ELSE IF k = "seg" THEN os
            ELSE IF k = "roi_masks" THEN rm
            ELSE IF k = "bb_target" THEN bt
            ELSE d[k]]

Cells2D == (0..2) \X (0..2)
Cells3D == (0..1) \X (0..1) \X (0..1)

\* the mask over cells that has the labels of f on DOMAIN f and 0 elsewhere
MaskOf(cells, f) == [c \in cells |-> IF c \in DOMAIN f THEN f[c] ELSE 0]

\* the masks with at most MaxCells labelled cells, labels 1 and 2
SparseMasks(cells) ==
    UNION {{MaskOf(cells, f) : f \in [S -> {1, 2}]} :
              S \in {T \in SUBSET cells : Cardinality(T) <= MaxCells}}

\* the masks of the batches of several samples: an empty one, one instance,
\* two instances, and one whose instance 1 did not survive
BatchMasks ==
    {MaskOf(Cells2D, <<>>),
     MaskOf(Cells2D, (<<0, 0>> :> 1)),
     MaskOf(Cells2D, (<<0, 0>> :> 1) @@ (<<2, 1>> :> 2) @@ (<<2, 2>> :> 2)),
     MaskOf(Cells2D, (<<1, 1>> :> 2))}

SegBatches ==
    {<<m>> : m \in SparseMasks(Cells2D) \cup SparseMasks(Cells3D)}
    \cup UNION {[1..n -> BatchMasks] : n \in 2..MaxSamples}

\* data_dict['class_targets'][b]: one class per ROI id, or with
\* get_rois_from_seg one class for the sample
ClassTargetChoices(from_seg) ==
    IF from_seg THEN {0, 1, 2} ELSE {<<1, 2>>, <<2, 1>>, <<3, 5>>, <<0, 1>>, <<1>>}

KeyChoices ==
    {<<"class_targets">>, <<"regression_targets">>, <<"class_targets", "regression_targets">>}

BBoxInit ==
    /\ bb_pc = "loop"
    /\ get_rois_from_seg \in BOOLEAN
    /\ class_specific_seg \in BOOLEAN
    /\ roi_item_keys \in KeyChoices
    /\ seg_array \in SegBatches
    /\ bb_dim = Len(CHOOSE c \in DOMAIN seg_array[1] : TRUE)
    /\ \E ct \in [1..Len(seg_array) -> ClassTargetChoices(get_rois_from_seg)] :
          data_dict = [k \in {"seg", "class_targets", "regression_targets", "pid"} |->
                          IF k = "seg" THEN seg_array
                          ELSE IF k = "class_targets" THEN ct
                          ELSE IF k = "regression_targets"
                          THEN [n \in 1..Len(seg_array) |-> <<10 * n + 1, 10 * n + 2>>]
                          ELSE [n \in 1..Len(seg_array) |-> n]]
    /\ bb_in = data_dict
    /\ bb_b = 0
    /\ bb_target = <<>>
    /\ roi_masks = <<>>
    /\ roi_items = [name \in Range(roi_item_keys) |-> <<>>]
    /\ out_seg = seg_array
    /\ bb_err = "none"

\* one iteration of the loop over the samples (lines 539-594)
BBoxSample ==
    /\ bb_pc = "loop"
    /\ bb_b < Len(data_dict["seg"])
    /\ LET bpos == bb_b + 1
           seg_b == data_dict["seg"][bpos]
           items == items_of(data_dict, roi_item_keys, bpos, get_rois_from_seg)
           e == sample_error(items, roi_item_keys, seg_b, get_rois_from_seg, class_specific_seg)
           sv == survived_rix(seg_b, get_rois_from_seg)
       IN  IF nonzero_cells(seg_b) # {}
           THEN /\ data_dict' = IF get_rois_from_seg
                                THEN [data_dict EXCEPT !["class_targets"][bpos] = items["class_targets"]]
                                ELSE data_dict
                /\ IF e # "none"
                   THEN /\ bb_pc' = "error"
                        /\ bb_err' = e
                        /\ UNCHANGED <<bb_b, bb_target, roi_masks, roi_items, out_seg>>
                   ELSE /\ bb_target' = Append(bb_target,
                               [i \in 1..Len(sv) |-> coord_list(seg_ixs(seg_b, sv[i] + 1), bb_dim)])
                        /\ roi_masks' = Append(roi_masks,
                               [i \in 1..Len(sv) |-> roi_of(seg_b, sv[i] + 1)])
                        /\ roi_items' = [name \in DOMAIN roi_items |->
                               Append(roi_items[name],
                                      [i \in 1..Len(sv) |-> roi_item(items[name], sv[i])])]
                        /\ out_seg' = [out_seg EXCEPT ![bpos] =
                               out_seg_b(seg_b, items["class_targets"], get_rois_from_seg,
                                         class_specific_seg)]
                        /\ bb_b' = bb_b + 1
                        /\ UNCHANGED <<bb_pc, bb_err>>
           ELSE /\ bb_target' = Append(bb_target, <<>>)
                /\ roi_masks' = Append(roi_masks, empty_roi_masks(seg_b))
                /\ roi_items' = [name \in DOMAIN roi_items |-> Append(roi_items[name], <<>>)]
                /\ bb_b' = bb_b + 1
                /\ UNCHANGED <<data_dict, out_seg, bb_pc, bb_err>>
    /\ UNCHANGED <<bb_in, seg_array, bb_dim, roi_item_keys, get_rois_from_seg, class_specific_seg>>
    /\ BBoxFrame

\* after the loop: lines 596-606
BBoxFinish ==
    /\ bb_pc = "loop"
    /\ bb_b = Len(data_dict["seg"])
    /\ data_dict' = final_dict(data_dict, roi_item_keys, get_rois_from_seg,
                               bb_target, roi_masks, roi_items, out_seg)
    /\ bb_pc' = "done"
    /\ UNCHANGED <<bb_in, seg_array, bb_dim, roi_item_keys, get_rois_from_seg, class_specific_seg,
                   bb_b, bb_target, roi_masks, roi_items, out_seg, bb_err>>
    /\ BBoxFrame

NextBBox == BBoxSample \/ BBoxFinish

InitBBox == BBoxInit /\ FoldIdle /\ SamplerIdle /\ PatchIdle /\ PadIdle /\ IOIdle

SpecBBox == InitBBox /\ [][NextBBox]_vars

(* Properties of convert_seg_to_bounding_box_coordinates *)

\* the cells of instance mask m
MaskCells(m) == {c \in DOMAIN m : m[c] = 1}

\* position of the lower and of the upper bound of an axis in a box
\* (y1, x1, y2, x2, z1, z2)
BoxLo(axis) == IF axis = 3 THEN 5 ELSE axis
BoxHi(axis) == IF axis = 3 THEN 6 ELSE axis + 2

\* the ids 1..m of a mask that have at least one cell, m its largest label
PresentIds(seg_b) ==
    Ascending({r \in 1..SetMax({seg_b[c] : c \in DOMAIN seg_b}) : \E c \in DOMAIN seg_b : seg_b[c] = r})

ZeroMask(seg_b) == \A c \in DOMAIN seg_b : seg_b[c] = 0

\* C16: every emitted bounding box belongs to a non-empty instance of its
\* sample's input mask and has, on every spatial axis, min = smallest index of
\* the instance's cells - 1 and max = largest index + 1, so min < max, also
\* where the instance touches the border (min = -1); the returned 'bb_target'
\* holds these boxes.
C16_BoxMargins ==
    /\ \A p \in 1..Len(bb_target) : \A i \in 1..Len(bb_target[p]) :
          LET box == bb_target[p][i]
              cells == MaskCells(roi_masks[p][i])
          IN  /\ cells # {}
              /\ \E ii \in 1..2 : cells = {c \in DOMAIN seg_array[p] : seg_array[p][c] = ii}
              /\ Len(box) = 2 * bb_dim
              /\ \A axis \in 1..bb_dim :
                    /\ box[BoxLo(axis)] = SetMin({c[axis] : c \in cells}) - 1
                    /\ box[BoxHi(axis)] = SetMax({c[axis] : c \in cells}) + 1
                    /\ box[BoxLo(axis)] < box[BoxHi(axis)]
    /\ bb_pc = "done" => data_dict["bb_target"] = bb_target

\* a returned 3D call whose instance lies in the corner of the image
C16_Witness ==
    /\ bb_pc = "done" /\ bb_dim = 3
    /\ data_dict["bb_target"] = << << <<-1, -1, 1, 2, 0, 2>> >> >>

\* a sample has a surviving instance whose class value is below 1
ZeroClassSurvivor(p) ==
    LET seg_b == seg_array[p]
        ct == class_targets_b(bb_in["class_targets"][p], seg_b, get_rois_from_seg)
    IN  \E r \in 1..Len(ct) : (\E c \in DOMAIN seg_b : seg_b[c] = r) /\ ct[r] < 1

\* C17: no sample with a surviving instance of class value below 1 gets past
\* the loop, every emitted class_targets value is >= 1, and the call ends in
\* an AssertionError at such a sample.
C17_RoiClassAtLeastOne ==
    /\ \A p \in 1..Len(bb_target) : ~ZeroClassSurvivor(p)
    /\ "class_targets" \in DOMAIN roi_items =>
          \A p \in 1..Len(roi_items["class_targets"]) :
              \A i \in 1..Len(roi_items["class_targets"][p]) :
                  roi_items["class_targets"][p][i] >= 1
    /\ (bb_pc = "error" /\ ZeroClassSurvivor(bb_b + 1)) => bb_err = "AssertionError"
    /\ (bb_pc = "error" /\ bb_err = "AssertionError") => ZeroClassSurvivor(bb_b + 1)

\* the second sample of a batch has a surviving instance of class 0 and the
\* call has ended in the assertion there
C17_Witness ==
    /\ bb_pc = "error" /\ bb_err = "AssertionError"
    /\ bb_b = 1 /\ Len(bb_target) = 1 /\ Len(bb_target[1]) = 2
    /\ ~get_rois_from_seg
    /\ bb_in["class_targets"][2] = <<0, 1>>
    /\ ZeroClassSurvivor(2)

\* C18: a sample whose mask is entirely zero raises no error and gets an
\* empty bounding-box list, an empty array for every declared attribute key
\* and one all-zero ROI mask as placeholder, in the lists of the loop and in
\* the returned dict; the loop goes on to the next sample, and the other
\* samples of a returned call have one box per instance present.
C18_ZeroMaskSample ==
    /\ Len(bb_target) = bb_b /\ Len(roi_masks) = bb_b
    /\ \A p \in 1..Len(bb_target) :
          ZeroMask(seg_array[p]) =>
              /\ bb_target[p] = <<>>
              /\ roi_masks[p] = << [c \in DOMAIN seg_array[p] |-> 0] >>
              /\ \A name \in DOMAIN roi_items : roi_items[name][p] = <<>>
              /\ out_seg[p] = seg_array[p]
    /\ bb_pc = "error" => ~ZeroMask(seg_array[bb_b + 1])
    /\ bb_pc = "done" =>
          \A p \in 1..Len(seg_array) :
              IF ZeroMask(seg_array[p])
              THEN /\ data_dict["bb_target"][p] = <<>>
                   /\ data_dict["roi_masks"][p] = << [c \in DOMAIN seg_array[p] |-> 0] >>
                   /\ \A k \in 1..Len(roi_item_keys) : data_dict[roi_item_keys[k]][p] = <<>>
                   /\ data_dict["seg"][p] = seg_array[p]
              ELSE ~get_rois_from_seg =>
                      /\ Len(data_dict["bb_target"][p]) = Len(PresentIds(seg_array[p]))
                      /\ Len(data_dict["bb_target"][p]) >= 1

\* a returned call on a batch whose first sample is empty and whose second
\* has two instances
C18_Witness ==
    /\ bb_pc = "done" /\ Len(seg_array) = 2
    /\ ZeroMask(seg_array[1]) /\ data_dict["bb_target"][1] = <<>>
    /\ Len(data_dict["bb_target"][2]) = 2
    /\ Len(roi_item_keys) = 2 /\ data_dict["regression_targets"] = << <<>>, <<21, 22>> >>

\* C19: without get_rois_from_seg, for every processed sample with a non-zero
\* mask the emitted ROIs are the ids 1..m (m the largest label) that have a
\* cell, in increasing order; the boxes, ROI masks and every declared
\* attribute list have one entry per such id, the attribute entry of id r
\* being the input value at index r-1; a call fails only at a sample where a
\* present id has no attribute entry or a class below 1, never for an absent
\* id; labels 1 and 2 with class attributes [3, 5] give classes 3 and 5.
C19_PresentIdsInOrder ==
    ~get_rois_from_seg =>
        /\ \A p \in 1..Len(bb_target) :
              ~ZeroMask(seg_array[p]) =>
                  LET ids == PresentIds(seg_array[p])
                  IN  /\ Len(bb_target[p]) = Len(ids)
                      /\ roi_masks[p] =
                            [i \in 1..Len(ids) |->
                                [c \in DOMAIN seg_array[p] |-> IF seg_array[p][c] = ids[i] THEN 1 ELSE 0]]
                      /\ \A name \in DOMAIN roi_items :
                            roi_items[name][p] = [i \in 1..Len(ids) |-> bb_in[name][p][ids[i]]]
                      /\ (ids = <<1, 2>> /\ bb_in["class_targets"][p] = <<3, 5>>
                          /\ "class_targets" \in DOMAIN roi_items)
                            => roi_items["class_targets"][p] = <<3, 5>>
        /\ bb_pc = "error" =>
              LET ids == PresentIds(seg_array[bb_b + 1])
                  ct == bb_in["class_targets"][bb_b + 1]
              IN  \E i \in 1..Len(ids) : ids[i] > Len(ct) \/ ct[ids[i]] < 1
        /\ bb_pc = "done" =>
              \A k \in 1..Len(roi_item_keys) :
                  data_dict[roi_item_keys[k]] = roi_items[roi_item_keys[k]]

\* a returned call: the first sample has labels 1 and 2 and classes [3, 5],
\* in the second only instance 2 is left
C19_Witness ==
    /\ bb_pc = "done" /\ ~get_rois_from_seg /\ Len(seg_array) = 2
    /\ bb_in["class_targets"] = << <<3, 5>>, <<3, 5>> >>
    /\ PresentIds(seg_array[1]) = <<1, 2>> /\ PresentIds(seg_array[2]) = <<2>>
    /\ data_dict["class_targets"] = << <<3, 5>>, <<5>> >>
    /\ Len(data_dict["bb_target"][1]) = 2 /\ Len(data_dict["bb_target"][2]) = 1

\* C20: a returned call has changed only 'seg', 'bb_target', 'roi_masks' and
\* the declared roi_item_keys: every other key of the input dict is still
\* present with its input value, whatever get_rois_from_seg and
\* class_specific_seg are, and the mask array passed in is as it was.
C20_OnlyDeclaredKeysChange ==
    bb_pc = "done" =>
        /\ \A k \in DOMAIN bb_in \ ({"seg", "bb_target", "roi_masks"} \cup Range(roi_item_keys)) :
              k \in DOMAIN data_dict /\ data_dict[k] = bb_in[k]
        /\ seg_array = bb_in["seg"]

\* C27: with get_rois_from_seg, a processed sample whose mask has k connected
\* foreground regions has k ROI records: k boxes and k binary masks, each mask
\* being one connected region, and every emitted class_targets value is the
\* sample's class value.
C27_RoisAreClusters ==
    get_rois_from_seg =>
        \A p \in 1..Len(bb_target) :
            ~ZeroMask(seg_array[p]) =>
                LET fg == nonzero_cells(seg_array[p])
                IN  /\ Len(bb_target[p]) = CountClusters(fg)
                    /\ Len(roi_masks[p]) = CountClusters(fg)
                    /\ \A i \in 1..Len(roi_masks[p]) :
                          \A c \in MaskCells(roi_masks[p][i]) :
                              MaskCells(roi_masks[p][i]) = GrowCluster({c}, fg)
                    /\ "class_targets" \in DOMAIN roi_items =>
                          roi_items["class_targets"][p] =
                              [i \in 1..CountClusters(fg) |-> bb_in["class_targets"][p]]

\* C28: in the output segmentation of a processed sample every background
\* voxel is 0; with class_specific_seg (and instance ids in the mask, that is
\* without get_rois_from_seg) every voxel that carried instance id r carries
\* class_targets[r-1], decided from the ids of the input mask, also when a
\* class value is another instance's id; without class_specific_seg every
\* foreground voxel is 1; the returned 'seg' is that segmentation.
C28_OutputSegmentation ==
    /\ \A p \in 1..Len(bb_target) : \A c \in DOMAIN seg_array[p] :
          LET r == seg_array[p][c]
          IN  /\ r = 0 => out_seg[p][c] = 0
              /\ (r # 0 /\ ~class_specific_seg) => out_seg[p][c] = 1
              /\ (r # 0 /\ class_specific_seg /\ ~get_rois_from_seg)
                    => out_seg[p][c] = bb_in["class_targets"][p][r]
    /\ bb_pc = "done" => data_dict["seg"] = out_seg

\* a returned call with class_specific_seg: instance 1 has class 2 and
\* instance 2 has class 1, and the output has them swapped
C28_Witness ==
    /\ bb_pc = "done" /\ class_specific_seg /\ ~get_rois_from_seg
    /\ Len(seg_array) = 1 /\ bb_dim = 2
    /\ bb_in["class_targets"] = << <<2, 1>> >>
    /\ seg_array[1][<<0, 0>>] = 1 /\ seg_array[1][<<0, 1>>] = 2
    /\ data_dict["seg"][1][<<0, 0>>] = 2 /\ data_dict["seg"][1][<<0, 1>>] = 1
    /\ data_dict["seg"][1][<<2, 2>>] = 0

----------------------------------------------------------------------------
(* utils/exp_utils.py: IO_safe *)

\* the defaults of the keyword arguments in the signature
DefaultTries == 5
DefaultRaise == TRUE

\* what one call of func can do: return a value, raise an OSError (or a
\* subclass of it), or raise some other exception
FuncValues == {"r1", "r2"}
OSErrors == {"OSError", "FileNotFoundError"}
OtherErrors == {"ValueError"}
FuncOutcomes == FuncValues \cup OSErrors \cup OtherErrors

\* except OSError: the clause catches OSError and its subclasses
caught(o) == o \in OSErrors

\* IO_safe(func, *args, **kwargs) is called; keyword arguments not passed
\* take their defaults
IOInit ==
    /\ io_pc = "loop"
    /\ io_kwargs \in SUBSET {"_tries", "_raise"}
    /\ _tries \in (IF "_tries" \in io_kwargs THEN 0..MaxTries ELSE {DefaultTries})
    /\ _raise \in (IF "_raise" \in io_kwargs THEN BOOLEAN ELSE {DefaultRaise})
    /\ _try = 0
    /\ func_log = <<>>
    /\ io_result = "None"
    /\ io_exc = "none"
    /\ printed = <<>>

\* one iteration of `for _try in range(_tries)`: func is called once
IOSafeAttempt ==
    /\ io_pc = "loop"
    /\ _try < _tries
    /\ \E o \in FuncOutcomes :
          /\ func_log' = Append(func_log, o)
          /\ IF o \in FuncValues
                THEN \* return func(*args, **kwargs)
                     /\ io_pc' = "returned"
                     /\ io_result' = o
                     /\ UNCHANGED <<_try, io_exc, printed>>
                ELSE IF caught(o)
                THEN IF _raise
                       THEN \* raise e
                            /\ io_pc' = "raised"
                            /\ io_exc' = o
                            /\ UNCHANGED <<_try, io_result, printed>>
                       ELSE \* print(...); continue
                            /\ printed' = Append(printed, _try + 1)
                            /\ _try' = _try + 1
                            /\ UNCHANGED <<io_pc, io_result, io_exc>>
                ELSE \* not an OSError: the exception leaves IO_safe
                     /\ io_pc' = "raised"
                     /\ io_exc' = o
                     /\ UNCHANGED <<_try, io_result, printed>>
    /\ UNCHANGED <<io_kwargs, _tries, _raise>>
    /\ IOFrame

\* range(_tries) is used up: the function body ends and None is returned
IOSafeExhausted ==
    /\ io_pc = "loop"
    /\ _try >= _tries
    /\ io_pc' = "returned"
    /\ io_result' = "None"
    /\ UNCHANGED <<io_kwargs, _tries, _raise, _try, func_log, io_exc, printed>>
    /\ IOFrame

NextIO == IOSafeAttempt \/ IOSafeExhausted

InitIO == IOInit /\ FoldIdle /\ SamplerIdle /\ PatchIdle /\ PadIdle /\ BBoxIdle

SpecIO == InitIO /\ [][NextIO]_vars

----------------------------------------------------------------------------
(* Properties of IO_safe *)

\* the outcome of the last call of func
LastOutcome == func_log[Len(func_log)]

\* C29: IO_safe makes up to _tries attempts at executing func: as long as an
\* attempt raises OSError and fewer than _tries attempts have been made, func
\* is called again, and the result of the first successful attempt is
\* returned; with the default arguments (_tries = 5, _raise = True) as well as
\* with _raise = False.  So a call that has ended after an attempt that
\* raised OSError has made all _tries attempts.
C29_RetriesOnOSError ==
    /\ Len(func_log) <= _tries
    /\ (io_pc \in {"returned", "raised"} /\ func_log # <<>> /\ LastOutcome \in OSErrors)
          => Len(func_log) = _tries
    /\ (io_pc = "returned" /\ func_log # <<>> /\ LastOutcome \in FuncValues)
          => io_result = LastOutcome

----------------------------------------------------------------------------
(* The whole program: one of the components is in use *)

Init == InitFold \/ InitSampler \/ InitPatch \/ InitPad \/ InitBBox \/ InitIO

Next == NextFold \/ NextSampler \/ NextPatch \/ NextPad \/ NextBBox \/ NextIO

Spec == Init /\ [][Next]_vars

====
